---- MODULE Spec2Model ----
(***************************************************************************)
(* ICMP file transfer (src/tools/icmp_file_transfer.py): the frame codec,  *)
(* the stop-and-wait client with its ACK listener thread, and the server   *)
(* with its progressive in-order write.                                    *)
(*                                                                         *)
(* Bytes are integers 0..255, byte strings are sequences of bytes, text    *)
(* strings are sequences of Unicode code points.  Python's None is        *)
(* NoneText where a string is expected, NoneInt where a number is, and     *)
(* NoneFrame / NoFile for a parsed frame / a file object.  Paths are POSIX *)
(* paths (the tool needs raw sockets).                                     *)
(***************************************************************************)
EXTENDS Integers, Sequences, FiniteSets, TLC

NoneInt == -1
NoneText == <<-1>>
NoneFrame == [type |-> -1, seq |-> -1, data |-> <<>>]

----------------------------------------------------------------------------
(* Module constants, lines 23-38.                                          *)

MAGIC == <<79, 65, 83, 73>>
ICMP_IDENT == 20289
HEADER_SIZE == 9
TYPE_METADATA == 1
TYPE_DATA == 2
TYPE_ACK == 3
TYPE_FIN == 4
ICMP_ECHO_REQUEST == 8
ICMP_ECHO_REPLY == 0

----------------------------------------------------------------------------
(* Byte-string helpers: slices, struct.pack / struct.unpack, UTF-8.        *)

\* b[from:] on a byte string (from is 0-based, as in Python).
SliceFrom(b, from) == SubSeq(b, from + 1, Len(b))

\* b[:to]
SliceTo(b, to) == SubSeq(b, 1, IF to < Len(b) THEN to ELSE Len(b))

\* struct.pack('!I', n), for 0 <= n < 2^32: four bytes, big-endian.
pack_I(n) ==
  << (n \div 16777216) % 256, (n \div 65536) % 256, (n \div 256) % 256, n % 256 >>

\* struct.unpack('!I', b)[0] for a four-byte string.
unpack_I(b) == b[1] * 16777216 + b[2] * 65536 + b[3] * 256 + b[4]

\* Mutant of pack_BI: struct.pack('BI', t, n), native alignment, pads the
\* byte to a four-byte boundary.
pack_BI_padded(t, n) == <<t % 256, 0, 0, 0>> \o pack_I(n)

\* struct.pack('!BI', t, n): one byte, then four bytes big-endian, unpadded.
pack_BI(t, n) == <<t % 256>> \o pack_I(n)

\* str.encode('utf-8') of one code point (surrogates are not in the inputs).
utf8_encode_cp(c) ==
  IF c < 128 THEN <<c>>
  ELSE IF c < 2048 THEN <<192 + (c \div 64), 128 + (c % 64)>>
  ELSE IF c < 65536
       THEN <<224 + (c \div 4096), 128 + ((c \div 64) % 64), 128 + (c % 64)>>
  ELSE <<240 + (c \div 262144), 128 + ((c \div 4096) % 64),
         128 + ((c \div 64) % 64), 128 + (c % 64)>>

RECURSIVE utf8_encode(_)
utf8_encode(s) ==
  IF s = <<>> THEN <<>> ELSE utf8_encode_cp(Head(s)) \o utf8_encode(Tail(s))

IsCont(b) == b >= 128 /\ b <= 191

\* Length of the well-formed UTF-8 sequence starting at b[i], 0 if ill-formed
\* (the strict decoder: no overlong forms, no surrogates, at most U+10FFFF).
utf8_seq_len(b, i) ==
  LET n == Len(b)
      b0 == b[i]
      c1 == IF i + 1 <= n THEN b[i + 1] ELSE -1
      c2 == IF i + 2 <= n THEN b[i + 2] ELSE -1
      c3 == IF i + 3 <= n THEN b[i + 3] ELSE -1
  IN  IF b0 < 128 THEN 1
      ELSE IF b0 >= 194 /\ b0 <= 223 THEN (IF IsCont(c1) THEN 2 ELSE 0)
      ELSE IF b0 = 224 THEN (IF c1 >= 160 /\ c1 <= 191 /\ IsCont(c2) THEN 3 ELSE 0)
      ELSE IF b0 = 237 THEN (IF c1 >= 128 /\ c1 <= 159 /\ IsCont(c2) THEN 3 ELSE 0)
      ELSE IF b0 >= 225 /\ b0 <= 239 THEN (IF IsCont(c1) /\ IsCont(c2) THEN 3 ELSE 0)
      ELSE IF b0 = 240
           THEN (IF c1 >= 144 /\ c1 <= 191 /\ IsCont(c2) /\ IsCont(c3) THEN 4 ELSE 0)
      ELSE IF b0 = 244
           THEN (IF c1 >= 128 /\ c1 <= 143 /\ IsCont(c2) /\ IsCont(c3) THEN 4 ELSE 0)
      ELSE IF b0 >= 241 /\ b0 <= 243
           THEN (IF IsCont(c1) /\ IsCont(c2) /\ IsCont(c3) THEN 4 ELSE 0)
      ELSE 0

utf8_cp(b, i, k) ==
  IF k = 1 THEN b[i]
  ELSE IF k = 2 THEN (b[i] - 192) * 64 + (b[i + 1] - 128)
  ELSE IF k = 3 THEN (b[i] - 224) * 4096 + (b[i + 1] - 128) * 64 + (b[i + 2] - 128)
  ELSE (b[i] - 240) * 262144 + (b[i + 1] - 128) * 4096
       + (b[i + 2] - 128) * 64 + (b[i + 3] - 128)

\* bytes.decode('utf-8'): the text, or NoneText for UnicodeDecodeError.
RECURSIVE utf8_decode_from(_, _, _)
utf8_decode_from(b, i, acc) ==
  IF i > Len(b) THEN acc
  ELSE LET k == utf8_seq_len(b, i)
       IN  IF k = 0 THEN NoneText
           ELSE utf8_decode_from(b, i + k, Append(acc, utf8_cp(b, i, k)))

utf8_decode(b) == utf8_decode_from(b, 1, <<>>)

\* 'needle in s' for text strings.
Contains(s, needle) ==
  \E i \in 1..(Len(s) - Len(needle) + 1) : SubSeq(s, i, i + Len(needle) - 1) = needle

\* os.path.basename (posixpath): what follows the last '/'.
basename(p) ==
  LET slashes == {i \in 1..Len(p) : p[i] = 47}
  IN  IF slashes = {} THEN p
      ELSE SubSeq(p, (CHOOSE i \in slashes : \A j \in slashes : j <= i) + 1, Len(p))

----------------------------------------------------------------------------
(* Frame codec, lines 41-113.                                              *)

build_payload(pkt_type, seq_num, data) == MAGIC \o pack_BI(pkt_type, seq_num) \o data

\* Mutant of parse_payload: the magic is not compared.
parse_payload_anymagic(raw_payload) ==
  IF Len(raw_payload) < HEADER_SIZE THEN NoneFrame
  ELSE [type |-> raw_payload[5],
        seq  |-> unpack_I(SubSeq(raw_payload, 6, 9)),
        data |-> SliceFrom(raw_payload, 9)]

\* The parsed frame, or NoneFrame.
parse_payload(raw_payload) ==
  IF Len(raw_payload) < HEADER_SIZE THEN NoneFrame
  ELSE IF SliceTo(raw_payload, 4) # MAGIC THEN NoneFrame
  ELSE [type |-> raw_payload[5],
        seq  |-> unpack_I(SubSeq(raw_payload, 6, 9)),
        data |-> SliceFrom(raw_payload, 9)]

\* A transport packet: IP source and destination, the ICMP layer (type and
\* identifier) and the Raw layer when there is one.
Packet(src, dst, has_icmp, icmp_type, id, has_raw, load) ==
  [src |-> src, dst |-> dst, has_icmp |-> has_icmp, icmp_type |-> icmp_type,
   id |-> id, has_raw |-> has_raw, load |-> load]

\* Mutant of is_valid_packet: the identifier is not looked at.
is_valid_packet_anyid(pkt) ==
  IF ~pkt.has_icmp \/ ~pkt.has_raw THEN FALSE
  ELSE Len(pkt.load) >= HEADER_SIZE /\ SliceTo(pkt.load, 4) = MAGIC

is_valid_packet(pkt) ==
  IF ~pkt.has_icmp \/ ~pkt.has_raw THEN FALSE
  ELSE IF pkt.id # ICMP_IDENT THEN FALSE
  ELSE Len(pkt.load) >= HEADER_SIZE /\ SliceTo(pkt.load, 4) = MAGIC

\* IP(dst=dest_ip) leaves the source to the sending host (see Transmit).
UnsetAddr == "unset"

build_icmp_packet(dest_ip, pkt_type, seq_num, data, icmp_type) ==
  Packet(UnsetAddr, dest_ip, TRUE, icmp_type, ICMP_IDENT, TRUE,
         build_payload(pkt_type, seq_num, data))

\* scapy's send() from host: the packet as it appears on the wire.
Transmit(host, pkt) == [pkt EXCEPT !.src = host]

\* Mutant of sanitize_filename: keeps the last path component of any name.
sanitize_filename_lax(filename) ==
  IF basename(filename) = <<>> THEN NoneText ELSE basename(filename)

\* Mutant of sanitize_filename: a backslash is let through.
sanitize_filename_posix(filename) ==
  IF filename = <<>> THEN NoneText
  ELSE IF Contains(filename, <<47>>) \/ Contains(filename, <<46, 46>>) THEN NoneText
  ELSE LET name == basename(filename)
       IN  IF name = <<>> THEN NoneText ELSE name

sanitize_filename(filename) ==
  IF filename = <<>> THEN NoneText
  ELSE IF Contains(filename, <<47>>) \/ Contains(filename, <<92>>)
          \/ Contains(filename, <<46, 46>>) THEN NoneText
  ELSE LET name == basename(filename)
       IN  IF name = <<>> THEN NoneText ELSE name

encode_metadata(total_chunks, filename) == pack_I(total_chunks) \o utf8_encode(filename)

\* Mutant of decode_metadata: the name is the bytes as they came, undecoded.
decode_metadata_raw(data) ==
  IF Len(data) < 4 THEN [total |-> NoneInt, name |-> NoneText]
  ELSE [total |-> unpack_I(SliceTo(data, 4)), name |-> SliceFrom(data, 4)]

\* [total, name], or [total |-> NoneInt, name |-> NoneText].
decode_metadata(data) ==
  IF Len(data) < 4 THEN [total |-> NoneInt, name |-> NoneText]
  ELSE LET total == unpack_I(SliceTo(data, 4))
           filename == utf8_decode(SliceFrom(data, 4))
       IN  IF filename = NoneText THEN [total |-> NoneInt, name |-> NoneText]
           ELSE [total |-> total, name |-> filename]

----------------------------------------------------------------------------
(* ICMPFileServer, lines 217-336.  The server object is a record; its     *)
(* output directory is the function disk from file names to contents.     *)
(* A handler is an operator from the state before to a result record:     *)
(*   srv, disk  the state after,                                           *)
(*   out        the packets it passed to send(), in order,                 *)
(*   raised     the exception that ended it ("none" if it returned),       *)
(*   log        what it logged about the frame.                            *)

\* self.output_file: None, or a file object [name, closed].
NoFile == [name |-> NoneText, closed |-> TRUE]
FileObj(name, closed) == [name |-> name, closed |-> closed]

EmptyChunks == [k \in {} |-> <<>>]
EmptyDisk == [n \in {} |-> <<>>]

\* d[k] = v on a Python dict.
DictPut(d, k, v) == [x \in DOMAIN d \cup {k} |-> IF x = k THEN v ELSE d[x]]

\* d.pop(k) leaves this.
DictDel(d, k) == [x \in DOMAIN d \ {k} |-> d[x]]

\* ICMPFileServer.__init__
ServerInit ==
  [received_chunks |-> EmptyChunks, filename |-> NoneText, total_chunks |-> 0,
   write_cursor |-> 1, output_file |-> NoFile, stop_event |-> FALSE]

Result(s, d, out, raised, log) ==
  [srv |-> s, disk |-> d, out |-> out, raised |-> raised, log |-> log]

\* open(path, 'wb') fails on a name that is a directory of output_dir.
OpenFails(name) == name = <<46>>

\* Mutant of send_ack: the ACK goes out as an echo request.
send_ack_request(dest_ip, seq) ==
  build_icmp_packet(dest_ip, TYPE_ACK, seq, <<>>, ICMP_ECHO_REQUEST)

send_ack(dest_ip, seq) ==
  build_icmp_packet(dest_ip, TYPE_ACK, seq, <<>>, ICMP_ECHO_REPLY)

\* The while loop of _flush_chunks: write() on a closed file raises ValueError
\* after its argument, the pop, was evaluated.
RECURSIVE flush_loop(_, _)
flush_loop(s, d) ==
  IF s.write_cursor \in DOMAIN s.received_chunks
  THEN LET chunk == s.received_chunks[s.write_cursor]
           popped == [s EXCEPT !.received_chunks = DictDel(@, s.write_cursor)]
       IN  IF s.output_file.closed
           THEN Result(popped, d, <<>>, "ValueError", "none")
           ELSE flush_loop([popped EXCEPT !.write_cursor = @ + 1],
                           [d EXCEPT ![s.output_file.name] = @ \o chunk])
  ELSE IF s.output_file.closed
       THEN Result(s, d, <<>>, "ValueError", "none")
       ELSE Result(s, d, <<>>, "none", "none")

\* Mutant of flush_chunks: writes every pending chunk in ascending order,
\* gaps or not.
RECURSIVE flush_all(_, _)
flush_all(s, d) ==
  IF DOMAIN s.received_chunks = {} THEN Result(s, d, <<>>, "none", "none")
  ELSE LET k == CHOOSE x \in DOMAIN s.received_chunks :
                  \A y \in DOMAIN s.received_chunks : x <= y
       IN  flush_all([s EXCEPT !.received_chunks = DictDel(@, k), !.write_cursor = k + 1],
                     [d EXCEPT ![s.output_file.name] = @ \o s.received_chunks[k]])

flush_chunks_nogap(s, d) ==
  IF s.output_file = NoFile THEN Result(s, d, <<>>, "none", "none")
  ELSE flush_all(s, d)

flush_chunks(s, d) ==
  IF s.output_file = NoFile THEN Result(s, d, <<>>, "none", "none")
  ELSE flush_loop(s, d)

\* Mutant of handle_metadata: the session fields are assigned before the
\* file name is looked at.
handle_metadata_eager(s, d, src_ip, seq, data) ==
  LET meta == decode_metadata(data)
      safe_name == sanitize_filename(meta.name)
      reset == [s EXCEPT !.total_chunks = meta.total, !.filename = safe_name,
                         !.received_chunks = EmptyChunks, !.write_cursor = 1]
      closed == IF s.output_file = NoFile THEN reset
                ELSE [reset EXCEPT !.output_file.closed = TRUE]
  IN  IF meta.total = NoneInt THEN Result(s, d, <<>>, "none", "invalid_metadata")
      ELSE IF safe_name = NoneText THEN Result(reset, d, <<>>, "none", "unsafe_filename")
      ELSE IF OpenFails(safe_name)
           THEN Result(closed, d, <<>>, "IsADirectoryError", "none")
      ELSE Result([closed EXCEPT !.output_file = FileObj(safe_name, FALSE)],
                  DictPut(d, safe_name, <<>>),
                  <<send_ack(src_ip, seq)>>, "none", "receiving")

\* Mutant of handle_metadata: a new session also clears the stop flag.
handle_metadata_rearm(s, d, src_ip, seq, data) ==
  LET meta == decode_metadata(data)
      safe_name == sanitize_filename(meta.name)
      reset == [s EXCEPT !.total_chunks = meta.total, !.filename = safe_name,
                         !.received_chunks = EmptyChunks, !.write_cursor = 1,
                         !.stop_event = FALSE]
      closed == IF s.output_file = NoFile THEN reset
                ELSE [reset EXCEPT !.output_file.closed = TRUE]
  IN  IF meta.total = NoneInt THEN Result(s, d, <<>>, "none", "invalid_metadata")
      ELSE IF safe_name = NoneText THEN Result(s, d, <<>>, "none", "unsafe_filename")
      ELSE IF OpenFails(safe_name)
           THEN Result(closed, d, <<>>, "IsADirectoryError", "none")
      ELSE Result([closed EXCEPT !.output_file = FileObj(safe_name, FALSE)],
                  DictPut(d, safe_name, <<>>),
                  <<send_ack(src_ip, seq)>>, "none", "receiving")

handle_metadata(s, d, src_ip, seq, data) ==
  LET meta == decode_metadata(data)
      safe_name == sanitize_filename(meta.name)
      reset == [s EXCEPT !.total_chunks = meta.total, !.filename = safe_name,
                         !.received_chunks = EmptyChunks, !.write_cursor = 1]
      closed == IF s.output_file = NoFile THEN reset
                ELSE [reset EXCEPT !.output_file.closed = TRUE]
  IN  IF meta.total = NoneInt THEN Result(s, d, <<>>, "none", "invalid_metadata")
      ELSE IF safe_name = NoneText THEN Result(s, d, <<>>, "none", "unsafe_filename")
      ELSE IF OpenFails(safe_name)
           THEN Result(closed, d, <<>>, "IsADirectoryError", "none")
      ELSE Result([closed EXCEPT !.output_file = FileObj(safe_name, FALSE)],
                  DictPut(d, safe_name, <<>>),
                  <<send_ack(src_ip, seq)>>, "none", "receiving")

\* Mutant of handle_data: writes each chunk as it arrives.
handle_data_unordered(s, d, src_ip, seq, data) ==
  IF s.output_file = NoFile THEN Result(s, d, <<send_ack(src_ip, seq)>>, "none", "chunk")
  ELSE Result([s EXCEPT !.write_cursor = @ + 1],
              [d EXCEPT ![s.output_file.name] = @ \o data],
              <<send_ack(src_ip, seq)>>, "none", "chunk")

\* Mutant of handle_data: a chunk below the cursor is dropped without an ACK.
handle_data_silent(s, d, src_ip, seq, data) ==
  IF seq < s.write_cursor THEN Result(s, d, <<>>, "none", "chunk")
  ELSE LET f == flush_chunks([s EXCEPT !.received_chunks = DictPut(@, seq, data)], d)
       IN  Result(f.srv, f.disk, <<send_ack(src_ip, seq)>>, "none", "chunk")

handle_data(s, d, src_ip, seq, data) ==
  LET stored == [s EXCEPT !.received_chunks = DictPut(@, seq, data)]
      f == flush_chunks(stored, d)
  IN  IF f.raised # "none" THEN f
      ELSE Result(f.srv, f.disk, <<send_ack(src_ip, seq)>>, "none", "chunk")

\* Mutant of handle_fin: the stop flag is left alone.
handle_fin_nostop(s, d, src_ip, seq) ==
  LET f == flush_chunks(s, d)
  IN  Result([f.srv EXCEPT !.output_file = NoFile], f.disk, <<send_ack(src_ip, seq)>>,
             "none", "saved")

\* Mutant of handle_fin: complete when write_cursor >= total_chunks.
handle_fin_ge(s, d, src_ip, seq) ==
  LET f == flush_chunks(s, d)
      shut == [f.srv EXCEPT !.output_file = NoFile, !.stop_event = TRUE]
  IN  Result(shut, f.disk, <<send_ack(src_ip, seq)>>, "none",
             IF shut.write_cursor >= shut.total_chunks THEN "saved" ELSE "incomplete")

handle_fin(s, d, src_ip, seq) ==
  LET ack == <<send_ack(src_ip, seq)>>
      f == flush_chunks(s, d)
      shut == [f.srv EXCEPT !.output_file = NoFile]
      complete == shut.write_cursor > shut.total_chunks
  IN  IF f.raised # "none" THEN Result(f.srv, f.disk, ack, f.raised, "none")
      ELSE IF complete /\ shut.filename = NoneText
           THEN Result(shut, f.disk, ack, "TypeError", "none")
      ELSE Result([shut EXCEPT !.stop_event = TRUE], f.disk, ack, "none",
                  IF complete THEN "saved" ELSE "incomplete")

\* Mutant of handle_packet: a frame of any other type is acknowledged.
handle_packet_ackall(s, d, pkt) ==
  IF ~is_valid_packet(pkt) THEN Result(s, d, <<>>, "none", "none")
  ELSE LET parsed == parse_payload(pkt.load)
       IN  IF parsed = NoneFrame THEN Result(s, d, <<>>, "none", "none")
           ELSE IF parsed.type = TYPE_METADATA
                THEN handle_metadata(s, d, pkt.src, parsed.seq, parsed.data)
           ELSE IF parsed.type = TYPE_DATA
                THEN handle_data(s, d, pkt.src, parsed.seq, parsed.data)
           ELSE IF parsed.type = TYPE_FIN
                THEN handle_fin(s, d, pkt.src, parsed.seq)
           ELSE Result(s, d, <<send_ack(pkt.src, parsed.seq)>>, "none", "none")

\* ICMPFileServer._handle_packet
handle_packet(s, d, pkt) ==
  IF ~is_valid_packet(pkt) THEN Result(s, d, <<>>, "none", "none")
  ELSE LET parsed == parse_payload(pkt.load)
       IN  IF parsed = NoneFrame THEN Result(s, d, <<>>, "none", "none")
           ELSE IF parsed.type = TYPE_METADATA
                THEN handle_metadata(s, d, pkt.src, parsed.seq, parsed.data)
           ELSE IF parsed.type = TYPE_DATA
                THEN handle_data(s, d, pkt.src, parsed.seq, parsed.data)
           ELSE IF parsed.type = TYPE_FIN
                THEN handle_fin(s, d, pkt.src, parsed.seq)
           ELSE Result(s, d, <<>>, "none", "none")

\* Mutant of start_finally: the output file is left as it is.
start_finally_leak(s) == s

\* The finally clause of ICMPFileServer.start
start_finally(s) == [s EXCEPT !.output_file = NoFile]

----------------------------------------------------------------------------
(* Bounds of the model.                                                    *)

\* total_chunks announced by the METADATA frames the server is given: 0..MaxChunks
MaxChunks == 2
\* DATA frames the server is given carry sequences 0..MaxSeq
MaxSeq == MaxChunks + 1
\* packets handed to the server in one behaviour of SpecServer
MaxFrames == 4

----------------------------------------------------------------------------
(* State.                                                                  *)

VARIABLES
  server,     \* the ICMPFileServer object
  disk,       \* the files of output_dir: name -> bytes
  srv_pc,     \* start(): "idle", "listening", "stopped" (returned), "crashed" (raised)
  echo_ignore_all,  \* the server host's net.ipv4.icmp_echo_ignore_all: 1 when the
              \*   kernel's own echo replies are suppressed
  last,       \* history: the packet last given to _handle_packet and its Result
  accepted,   \* history: seq -> payload of the DATA frame last received for seq
              \*   while seq was not yet written, in the current session
  nrecv,      \* history: packets handled so far
  plan,       \* SpecPerm's environment: the transfer being delivered;
              \*   SpecCodec's: the input being converted and what came out
  cfg,        \* the client's inputs: payload_size, max_retries, buffer_size, file
  c_pc,       \* the client's main thread: where it is in __init__ / send_file
  loc,        \* send_file's and _send_with_retry's local variables
  ack_event,  \* self.ack_event (threading.Event)
  expected_ack_seq,  \* self.expected_ack_seq
  stop_sniff, \* self.stop_sniff (threading.Event)
  l_pc,       \* the listener thread: "off", "sniffing", "matched", "stopped"
  error,      \* the exception the client's caller got
  toServer,   \* packets in flight to the server
  toClient,   \* packets in flight to the client
  sent,       \* history: the frames the client passed to send(), in order
  acks,       \* history: ackRecv, the ACK sequences the listener has parsed;
              \*   setBy / matching, the ACK sequence that set / is about to set ack_event
  faults      \* history: how many timeouts fired and how many packets the network
              \*   delivered twice

svars == <<server, disk, srv_pc, echo_ignore_all>>
hvars == <<last, accepted, nrecv>>
cvars == <<cfg, c_pc, loc, ack_event, expected_ack_seq, stop_sniff, l_pc, error, sent, acks>>
nvars == <<toServer, toClient, faults>>
vars == <<server, disk, srv_pc, echo_ignore_all, last, accepted, nrecv, plan, cfg, c_pc, loc, ack_event,
          expected_ack_seq, stop_sniff, l_pc, error, toServer, toClient, sent, acks, faults>>

NoPacket == Packet(UnsetAddr, UnsetAddr, FALSE, 0, 0, FALSE, <<>>)
NoLast == [pkt |-> NoPacket, out |-> <<>>, raised |-> "none", log |-> "none"]
NoPlan == [N |-> 0, chunks |-> <<>>, order |-> <<>>, phase |-> "off"]
NoError == [kind |-> "none", seq |-> NoneInt]
NoFrame == [type |-> 0, seq |-> NoneInt, data |-> <<>>]
NoLoc == [filename |-> <<>>, file_size |-> 0, data_per_chunk |-> 0, total_chunks |-> 0,
          chunk_buffer |-> EmptyChunks, next_load |-> 0, fpos |-> 0, i |-> 0,
          frame |-> NoFrame, attempt |-> 0]
NoAcks == [ackRecv |-> {}, setBy |-> NoneInt, matching |-> NoneInt]
NoFaults == [timeouts |-> 0, dups |-> 0]
NoCfg == [payload_size |-> 512, max_retries |-> 5, buffer_size |-> 10, file |-> <<>>]

\* The client and the network, not yet in use.
ClientOff ==
  /\ cfg = NoCfg
  /\ c_pc = "new"
  /\ loc = NoLoc
  /\ ack_event = FALSE
  /\ expected_ack_seq = -1
  /\ stop_sniff = FALSE
  /\ l_pc = "off"
  /\ error = NoError
  /\ toServer = {}
  /\ toClient = {}
  /\ sent = <<>>
  /\ acks = NoAcks
  /\ faults = NoFaults

----------------------------------------------------------------------------
(* The server's receive loop, ICMPFileServer.start (lines 234-247): sniff  *)
(* calls _handle_packet for each packet, then asks stop_filter; an         *)
(* exception of the handler, the stop flag or the timeout end it, and the  *)
(* finally clause closes the output file.                                  *)

ServerHost == "10.0.0.2"
ClientHost == "10.0.0.1"

\* start() is called (again, after it returned or raised).
SrvStart ==
  /\ srv_pc \in {"idle", "stopped", "crashed"}
  /\ srv_pc' = "listening"
  /\ UNCHANGED <<server, disk, echo_ignore_all>>

\* The state after sniff gave pkt to _handle_packet: r is the handler's Result.
SrvAfter(r) ==
  /\ IF r.raised # "none"
     THEN /\ server' = start_finally(r.srv)
          /\ srv_pc' = "crashed"
     ELSE IF r.srv.stop_event
     THEN /\ server' = start_finally(r.srv)
          /\ srv_pc' = "stopped"
     ELSE /\ server' = r.srv
          /\ srv_pc' = "listening"
  /\ UNCHANGED echo_ignore_all

\* sniff's timeout expires.
SrvTimeout ==
  /\ srv_pc = "listening"
  /\ server' = start_finally(server)
  /\ srv_pc' = "stopped"
  /\ UNCHANGED <<disk, echo_ignore_all>>

\* ICMPFileServer.stop, called from outside the receive loop.
SrvStop ==
  /\ srv_pc = "listening"
  /\ ~server.stop_event
  /\ server' = [server EXCEPT !.stop_event = TRUE]
  /\ UNCHANGED <<disk, srv_pc, echo_ignore_all>>

\* A METADATA frame that passes decode_metadata and sanitize_filename.
AcceptedMetadata(pkt) ==
  /\ is_valid_packet(pkt)
  /\ parse_payload(pkt.load).type = TYPE_METADATA
  /\ decode_metadata(parse_payload(pkt.load).data).total # NoneInt
  /\ sanitize_filename(decode_metadata(parse_payload(pkt.load).data).name) # NoneText

\* History kept beside a handler call.
Track(pkt, r) ==
  LET parsed == parse_payload(pkt.load)
      isData == is_valid_packet(pkt) /\ parsed.type = TYPE_DATA
  IN  /\ last' = [pkt |-> pkt, raised |-> r.raised, log |-> r.log,
                  out |-> [i \in DOMAIN r.out |-> Transmit(ServerHost, r.out[i])]]
      /\ accepted' = IF AcceptedMetadata(pkt) THEN EmptyChunks
                     ELSE IF isData /\ parsed.seq >= server.write_cursor
                     THEN DictPut(accepted, parsed.seq, parsed.data)
                     ELSE accepted
      /\ nrecv' = nrecv + 1

----------------------------------------------------------------------------
(* SpecServer: the server alone, given any packets in any order.           *)

Sender2 == "10.0.0.9"
GoodNames == {<<97>>, <<233>>}
\* "../e", "a\b", "" fail sanitize_filename; "." passes it and names a directory
BadNames == {<<46, 46, 47, 101>>, <<97, 92, 98>>, <<>>, <<46>>}
ChunkPayloads == {<<1>>, <<2, 3>>}

Request(src, pkt_type, seq, data) ==
  Transmit(src, build_icmp_packet(ServerHost, pkt_type, seq, data, ICMP_ECHO_REQUEST))

MetadataPackets ==
  {Request(ClientHost, TYPE_METADATA, 0, encode_metadata(n, <<97>>)) : n \in 0..MaxChunks}
  \cup {Request(ClientHost, TYPE_METADATA, 0, encode_metadata(1, <<233>>))}
  \cup {Request(ClientHost, TYPE_METADATA, 0, encode_metadata(1, name)) : name \in BadNames}
  \cup {Request(ClientHost, TYPE_METADATA, 0, <<0>>),
        Request(ClientHost, TYPE_METADATA, 0, pack_I(1) \o <<255, 254>>)}

\* DATA for every sequence 0..MaxSeq; sequences 1 and 2 differ in their
\* payloads and sequence 1 comes with two payloads.
DataPackets ==
  {Request(ClientHost, TYPE_DATA, k, IF k = 2 THEN <<2, 3>> ELSE <<1>>) : k \in 0..MaxSeq}
  \cup {Request(ClientHost, TYPE_DATA, 1, <<2, 3>>)}

FinPackets ==
  {Request(ClientHost, TYPE_FIN, MaxChunks + 1, <<>>), Request(Sender2, TYPE_FIN, 1, <<>>)}

\* An ACK frame, a frame of a type the protocol does not have, and packets
\* is_valid_packet turns away: another identifier, another magic, a payload of
\* 8 bytes, no Raw layer.
OtherPackets ==
  {Request(ClientHost, TYPE_ACK, 1, <<>>),
   Request(ClientHost, 9, 1, <<1>>),
   [Request(ClientHost, TYPE_DATA, 1, <<1>>) EXCEPT !.id = 0],
   Packet(ClientHost, ServerHost, TRUE, ICMP_ECHO_REQUEST, ICMP_IDENT, TRUE,
          <<88, 88, 88, 88, 2, 0, 0, 0, 1, 1>>),
   Packet(ClientHost, ServerHost, TRUE, ICMP_ECHO_REQUEST, ICMP_IDENT, TRUE,
          MAGIC \o <<2, 0, 0, 0>>),
   Packet(ClientHost, ServerHost, TRUE, ICMP_ECHO_REQUEST, ICMP_IDENT, FALSE, <<>>)}

Packets == MetadataPackets \cup DataPackets \cup FinPackets \cup OtherPackets

InitServer ==
  /\ server = ServerInit
  /\ disk = EmptyDisk
  /\ srv_pc = "idle"
  /\ echo_ignore_all = 0
  /\ last = NoLast
  /\ accepted = EmptyChunks
  /\ nrecv = 0
  /\ plan = NoPlan
  /\ ClientOff

SrvRecv(pkt) ==
  /\ srv_pc = "listening"
  /\ nrecv < MaxFrames
  /\ LET r == handle_packet(server, disk, pkt)
     IN  /\ SrvAfter(r)
         /\ disk' = r.disk
         /\ Track(pkt, r)
  /\ UNCHANGED <<plan, cvars, nvars>>

SrvRecvAny == \E pkt \in Packets : SrvRecv(pkt)

SrvStartS == SrvStart /\ UNCHANGED <<hvars, plan, cvars, nvars>>
SrvTimeoutS == SrvTimeout /\ UNCHANGED <<hvars, plan, cvars, nvars>>
SrvStopS == SrvStop /\ UNCHANGED <<hvars, plan, cvars, nvars>>

NextServer == SrvStartS \/ SrvRecvAny \/ SrvTimeoutS \/ SrvStopS

SpecServer == InitServer /\ [][NextServer]_vars

----------------------------------------------------------------------------
(* SpecPerm: one transfer of N chunks delivered to a listening server as   *)
(* METADATA, then the N DATA frames each once in any order, then FIN.      *)

PermName == <<97>>
PermPayloads == ChunkPayloads \cup {<<>>}

InitPerm ==
  /\ server = ServerInit
  /\ disk = EmptyDisk
  /\ srv_pc = "listening"
  /\ echo_ignore_all = 0
  /\ last = NoLast
  /\ accepted = EmptyChunks
  /\ nrecv = 0
  /\ ClientOff
  /\ \E n \in 0..MaxSeq : \E c \in [1..n -> PermPayloads] :
       plan = [N |-> n, chunks |-> c, order |-> <<>>, phase |-> "meta"]

PermDeliver(pkt) ==
  /\ srv_pc = "listening"
  /\ UNCHANGED <<cvars, nvars>>
  /\ LET r == handle_packet(server, disk, pkt)
     IN  /\ SrvAfter(r)
         /\ disk' = r.disk
         /\ Track(pkt, r)

PermMeta ==
  /\ plan.phase = "meta"
  /\ PermDeliver(Request(ClientHost, TYPE_METADATA, 0, encode_metadata(plan.N, PermName)))
  /\ plan' = [plan EXCEPT !.phase = IF plan.N = 0 THEN "fin" ELSE "data"]

PermData ==
  /\ plan.phase = "data"
  /\ \E k \in 1..plan.N :
       /\ \A i \in 1..Len(plan.order) : plan.order[i] # k
       /\ PermDeliver(Request(ClientHost, TYPE_DATA, k, plan.chunks[k]))
       /\ plan' = [plan EXCEPT !.order = Append(@, k),
                               !.phase = IF Len(plan.order) + 1 = plan.N
                                         THEN "fin" ELSE "data"]

PermFin ==
  /\ plan.phase = "fin"
  /\ PermDeliver(Request(ClientHost, TYPE_FIN, plan.N + 1, <<>>))
  /\ plan' = [plan EXCEPT !.phase = "done"]

NextPerm == PermMeta \/ PermData \/ PermFin

SpecPerm == InitPerm /\ [][NextPerm]_vars

----------------------------------------------------------------------------
(* ICMPFileClient, lines 116-214.  The main thread runs __init__ and       *)
(* send_file; _listen_for_acks runs in a second thread.  The threads share *)
(* expected_ack_seq and ack_event without a lock: the listener's           *)
(* comparison with expected_ack_seq and its ack_event.set() are two steps, *)
(* and the main thread may run between them.  In _send_with_retry the      *)
(* assignment of expected_ack_seq, ack_event.clear() and send() are one    *)
(* step: the listener reads expected_ack_seq only in its comparison and    *)
(* writes ack_event only in its set(), and every placement of those two    *)
(* between the three statements has the outcome of a placement before or   *)
(* after all three.                                                        *)

\* files the client is given: n bytes, all different
File(n) == [i \in 1..n |-> i]
ClientFileName == <<102>>

\* Bounds of Spec: the file has 0..MaxFileSize bytes and is sent in chunks of
\* ChunkSize bytes, max_retries is 0..MaxRetries, and at most MaxFaults faults
\* happen: a wait that times out, or a packet the network delivers a second time.
MaxFileSize == 3
ChunkSize == 2
MaxRetries == 2
MaxFaults == 2

\* Mutant of payload_size_rejected: < for <=.
payload_size_rejected_lt(payload_size) == payload_size < HEADER_SIZE

\* __init__: if payload_size <= HEADER_SIZE: raise ValueError
payload_size_rejected(payload_size) == payload_size <= HEADER_SIZE

\* Mutant of total_chunks_of: floor instead of ceiling.
total_chunks_floor(file_size, data_per_chunk) ==
  IF file_size > 0 THEN file_size \div data_per_chunk ELSE 0

\* send_file, lines 143-144
total_chunks_of(file_size, data_per_chunk) ==
  IF file_size > 0 THEN (file_size + data_per_chunk - 1) \div data_per_chunk ELSE 0

\* Mutant of attempts_left: one attempt too many.
attempts_left_le(attempt, max_retries) == attempt <= max_retries

\* for attempt in range(self.max_retries)
attempts_left(attempt, max_retries) == attempt < max_retries

Min(a, b) == IF a < b THEN a ELSE b

\* Mutant of ReadChunk: every read starts at the beginning of the file.
ReadChunk_rewind(file, fpos, n) ==
  IF fpos < Len(file) THEN SubSeq(file, 1, Min(n, Len(file))) ELSE <<>>

\* f.read(n) at offset fpos
ReadChunk(file, fpos, n) == SubSeq(file, fpos + 1, Min(fpos + n, Len(file)))

\* One pass of "read a chunk and put it in the buffer" (lines 159-163, 172-175).
LoadNext(l, file) ==
  LET data == ReadChunk(file, l.fpos, l.data_per_chunk)
  IN  IF data = <<>> THEN l
      ELSE [l EXCEPT !.chunk_buffer = DictPut(@, l.next_load, data),
                     !.next_load = @ + 1,
                     !.fpos = @ + Len(data)]

\* Mutant of Preload: one pass more than count.
RECURSIVE Preload_over(_, _, _)
Preload_over(l, file, count) ==
  IF count < 0 THEN l
  ELSE IF ReadChunk(file, l.fpos, l.data_per_chunk) = <<>> THEN l
  ELSE Preload_over(LoadNext(l, file), file, count - 1)

\* The pre-load loop, lines 158-163: count passes, stopping at end of file.
RECURSIVE Preload(_, _, _)
Preload(l, file, count) ==
  IF count <= 0 THEN l
  ELSE IF ReadChunk(file, l.fpos, l.data_per_chunk) = <<>> THEN l
  ELSE Preload(LoadNext(l, file), file, count - 1)

\* The frame _send_with_retry is called with.
Frame(pkt_type, seq, data) == [type |-> pkt_type, seq |-> seq, data |-> data]

\* send_file at the top of "for i in range(total_chunks)" with index i, or past
\* the loop: the next call of _send_with_retry, or the KeyError of chunk_buffer[i].
EnterLoop(l, i) ==
  IF i < l.total_chunks
  THEN IF i \in DOMAIN l.chunk_buffer
       THEN [pc |-> "attempt", err |-> NoError,
             loc |-> [l EXCEPT !.i = i, !.attempt = 0,
                               !.frame = Frame(TYPE_DATA, i + 1, l.chunk_buffer[i])]]
       ELSE [pc |-> "crashed", err |-> [kind |-> "KeyError", seq |-> i],
             loc |-> [l EXCEPT !.i = i]]
  ELSE [pc |-> "attempt", err |-> NoError,
        loc |-> [l EXCEPT !.i = i, !.attempt = 0,
                          !.frame = Frame(TYPE_FIN, l.total_chunks + 1, <<>>)]]

\* send_file after _send_with_retry returned True for l.frame.
Continue(l, c) ==
  IF l.frame.type = TYPE_METADATA
  THEN EnterLoop(Preload([l EXCEPT !.chunk_buffer = EmptyChunks, !.next_load = 0, !.fpos = 0],
                         c.file, Min(c.buffer_size, l.total_chunks)), 0)
  ELSE IF l.frame.type = TYPE_DATA
  THEN LET freed == [l EXCEPT !.chunk_buffer = DictDel(@, l.i)]
           refilled == IF freed.next_load < freed.total_chunks
                       THEN LoadNext(freed, c.file) ELSE freed
       IN  EnterLoop(refilled, l.i + 1)
  ELSE [pc |-> "done", err |-> NoError, loc |-> l]

\* ICMPFileClient.__init__
ClientConstruct ==
  /\ c_pc = "new"
  /\ IF payload_size_rejected(cfg.payload_size)
     THEN /\ c_pc' = "config_error"
          /\ error' = [kind |-> "ValueError", seq |-> NoneInt]
     ELSE /\ c_pc' = "ready"
          /\ error' = error
  /\ ack_event' = FALSE
  /\ expected_ack_seq' = -1
  /\ stop_sniff' = FALSE
  /\ UNCHANGED <<cfg, loc, l_pc, sent, acks, svars, hvars, plan, nvars>>

\* send_file up to its first call of _send_with_retry (lines 140-152).
SendFileBegin ==
  /\ c_pc = "ready"
  /\ LET file_size == Len(cfg.file)
         data_per_chunk == cfg.payload_size - HEADER_SIZE
         total_chunks == total_chunks_of(file_size, data_per_chunk)
     IN  loc' = [loc EXCEPT !.filename = ClientFileName, !.file_size = file_size,
                            !.data_per_chunk = data_per_chunk,
                            !.total_chunks = total_chunks, !.attempt = 0,
                            !.frame = Frame(TYPE_METADATA, 0,
                                            encode_metadata(total_chunks, ClientFileName))]
  /\ l_pc' = "sniffing"
  /\ c_pc' = "attempt"
  /\ UNCHANGED <<cfg, ack_event, expected_ack_seq, stop_sniff, error, sent, acks,
                 svars, hvars, plan, nvars>>

\* Mutant of AttemptFrame: a retry goes out without the payload.
AttemptFrame_bare(l) ==
  IF l.attempt > 0 THEN [l.frame EXCEPT !.data = <<>>] ELSE l.frame

\* What an attempt of _send_with_retry puts in its packet (line 188): the
\* arguments of the call, whichever attempt it is.
AttemptFrame(l) == l.frame

\* _send_with_retry at the top of its loop: the next attempt, or TimeoutError
\* (and send_file's finally).
SendAttempt ==
  /\ c_pc = "attempt"
  /\ IF attempts_left(loc.attempt, cfg.max_retries)
     THEN /\ expected_ack_seq' = loc.frame.seq
          /\ ack_event' = FALSE
          /\ acks' = [acks EXCEPT !.setBy = NoneInt]
          /\ toServer' = toServer \cup
               {Transmit(ClientHost, build_icmp_packet(ServerHost, AttemptFrame(loc).type,
                           AttemptFrame(loc).seq, AttemptFrame(loc).data,
                           ICMP_ECHO_REQUEST))}
          /\ sent' = Append(sent, AttemptFrame(loc))
          /\ c_pc' = "wait"
          /\ UNCHANGED <<error, stop_sniff>>
     ELSE /\ c_pc' = "failed"
          /\ error' = [kind |-> "TimeoutError", seq |-> loc.frame.seq]
          /\ stop_sniff' = TRUE
          /\ UNCHANGED <<expected_ack_seq, ack_event, acks, toServer, sent>>
  /\ UNCHANGED <<cfg, loc, l_pc, toClient, faults, svars, hvars, plan>>

\* ack_event.wait returned True: back in send_file, up to the next call of
\* _send_with_retry or the end (with the finally clause).
WaitAcked ==
  /\ c_pc = "wait"
  /\ ack_event
  /\ LET k == Continue(loc, cfg)
     IN  /\ c_pc' = k.pc
         /\ loc' = k.loc
         /\ error' = k.err
         /\ stop_sniff' = IF k.pc \in {"done", "crashed"} THEN TRUE ELSE stop_sniff
  /\ UNCHANGED <<cfg, ack_event, expected_ack_seq, l_pc, sent, acks, svars, hvars, plan, nvars>>

\* ack_event.wait timed out.
WaitTimeout ==
  /\ c_pc = "wait"
  /\ ~ack_event
  /\ faults.timeouts + faults.dups < MaxFaults
  /\ loc' = [loc EXCEPT !.attempt = @ + 1]
  /\ c_pc' = "attempt"
  /\ faults' = [faults EXCEPT !.timeouts = @ + 1]
  /\ UNCHANGED <<cfg, ack_event, expected_ack_seq, stop_sniff, l_pc, error, sent, acks,
                 toServer, toClient, svars, hvars, plan>>

\* sniff's stop_filter, asked after each packet.
AfterPacket == IF stop_sniff THEN "stopped" ELSE "sniffing"

\* handle_packet of _listen_for_acks up to its comparison with expected_ack_seq.
ListenerHandle(pkt) ==
  LET parsed == parse_payload(pkt.load)
  IN  IF is_valid_packet(pkt) /\ parsed # NoneFrame /\ parsed.type = TYPE_ACK
      THEN IF parsed.seq = expected_ack_seq
           THEN /\ l_pc' = "matched"
                /\ acks' = [acks EXCEPT !.ackRecv = @ \cup {parsed.seq},
                                        !.matching = parsed.seq]
           ELSE /\ l_pc' = AfterPacket
                /\ acks' = [acks EXCEPT !.ackRecv = @ \cup {parsed.seq}]
      ELSE /\ l_pc' = AfterPacket
           /\ acks' = acks

\* The network delivers a packet to the listener's sniff.
ListenerRecv ==
  /\ l_pc = "sniffing"
  /\ \E pkt \in toClient :
       /\ ListenerHandle(pkt)
       /\ toClient' = toClient \ {pkt}
  /\ UNCHANGED <<cfg, c_pc, loc, ack_event, expected_ack_seq, stop_sniff, error, sent,
                 toServer, faults, svars, hvars, plan>>

\* The network delivers a packet to the listener and keeps a copy in flight.
ListenerRecvDup ==
  /\ l_pc = "sniffing"
  /\ faults.timeouts + faults.dups < MaxFaults
  /\ \E pkt \in toClient : ListenerHandle(pkt)
  /\ faults' = [faults EXCEPT !.dups = @ + 1]
  /\ UNCHANGED <<cfg, c_pc, loc, ack_event, expected_ack_seq, stop_sniff, error, sent,
                 toServer, toClient, svars, hvars, plan>>

\* The listener's sniff also sees the client's own outgoing frames.
ListenerRecvOwn ==
  /\ l_pc = "sniffing"
  /\ \E pkt \in toServer : ListenerHandle(pkt)
  /\ UNCHANGED <<cfg, c_pc, loc, ack_event, expected_ack_seq, stop_sniff, error, sent,
                 nvars, svars, hvars, plan>>

\* self.ack_event.set() after a comparison that matched.
ListenerSet ==
  /\ l_pc = "matched"
  /\ ack_event' = TRUE
  /\ acks' = [acks EXCEPT !.setBy = acks.matching]
  /\ l_pc' = AfterPacket
  /\ UNCHANGED <<cfg, c_pc, loc, expected_ack_seq, stop_sniff, error, sent,
                 nvars, svars, hvars, plan>>

----------------------------------------------------------------------------
(* Spec: one client, one server that listens from before the transfer and  *)
(* whose listen timeout does not expire during it (SpecServer has the      *)
(* timeout, stop and restart), and a network that may lose, delay, reorder *)
(* and duplicate packets.  A packet in flight stays in flight until it is  *)
(* delivered; a lost packet is one that never is.                          *)

\* The state before the client is constructed with the inputs c, the server
\* listening.
Start(c) ==
  /\ server = ServerInit
  /\ disk = EmptyDisk
  /\ srv_pc = "listening"
  /\ echo_ignore_all = 0
  /\ last = NoLast
  /\ accepted = EmptyChunks
  /\ nrecv = 0
  /\ plan = NoPlan
  /\ cfg = c
  /\ c_pc = "new"
  /\ loc = NoLoc
  /\ ack_event = FALSE
  /\ expected_ack_seq = -1
  /\ stop_sniff = FALSE
  /\ l_pc = "off"
  /\ error = NoError
  /\ toServer = {}
  /\ toClient = {}
  /\ sent = <<>>
  /\ acks = NoAcks
  /\ faults = NoFaults

Init ==
  \E mr \in 0..MaxRetries, n \in 0..MaxFileSize :
    Start([payload_size |-> HEADER_SIZE + ChunkSize, max_retries |-> mr,
           buffer_size |-> NoCfg.buffer_size, file |-> File(n)])

\* The effect on server and network of the server's sniff handing it pkt.
ServerHandles(pkt) ==
  LET r == handle_packet(server, disk, pkt)
  IN  /\ SrvAfter(r)
      /\ disk' = r.disk
      /\ toClient' = toClient \cup {Transmit(ServerHost, r.out[i]) : i \in DOMAIN r.out}

\* The network delivers a packet to the server's sniff.
NetRecv ==
  /\ srv_pc = "listening"
  /\ \E pkt \in toServer :
       /\ ServerHandles(pkt)
       /\ toServer' = toServer \ {pkt}
  /\ UNCHANGED <<faults, hvars, plan, cvars>>

\* The network delivers a packet to the server and keeps a copy in flight.
NetRecvDup ==
  /\ srv_pc = "listening"
  /\ faults.timeouts + faults.dups < MaxFaults
  /\ \E pkt \in toServer : ServerHandles(pkt)
  /\ faults' = [faults EXCEPT !.dups = @ + 1]
  /\ UNCHANGED <<toServer, hvars, plan, cvars>>

Next ==
  \/ ClientConstruct
  \/ SendFileBegin
  \/ SendAttempt
  \/ WaitAcked
  \/ WaitTimeout
  \/ ListenerRecv
  \/ ListenerRecvDup
  \/ ListenerRecvOwn
  \/ ListenerSet
  \/ NetRecv
  \/ NetRecvDup

Spec == Init /\ [][Next]_vars

----------------------------------------------------------------------------
(* SpecReliable: the same client and server on a network that delivers     *)
(* every packet once and before the client's timeout: no wait times out,   *)
(* nothing is lost, duplicated or reordered.  The inputs vary more widely  *)
(* than in Spec: the chunk size, the buffer size and the file.             *)

\* Bounds of SpecReliable: files of 0..RelFileSize bytes, chunks of
\* 1..RelChunkSize bytes, buffer_size 0..RelBufferSize.
RelFileSize == 5
RelChunkSize == 2
RelBufferSize == 2

\* The inputs within the bounds, and one more: the 13-byte file sent with the
\* default payload_size, max_retries and buffer_size.
InitReliable ==
  \/ \E cs \in 1..RelChunkSize, mr \in 0..1, bs \in 0..RelBufferSize, n \in 0..RelFileSize :
       Start([payload_size |-> HEADER_SIZE + cs, max_retries |-> mr,
              buffer_size |-> bs, file |-> File(n)])
  \/ Start([NoCfg EXCEPT !.file = File(13)])

NextReliable ==
  \/ ClientConstruct
  \/ SendFileBegin
  \/ SendAttempt
  \/ WaitAcked
  \/ ListenerRecv
  \/ ListenerRecvOwn
  \/ ListenerSet
  \/ NetRecv

SpecReliable == InitReliable /\ [][NextReliable]_vars

----------------------------------------------------------------------------
(* SpecCalc: the client's construction and the start of send_file, for     *)
(* payload sizes on both sides of the header size and files of many sizes. *)

\* Bounds of SpecCalc: payload_size 0..CalcPayloadSize, files of
\* 0..CalcFileSize bytes.
CalcPayloadSize == 20
CalcFileSize == 100

InitCalc ==
  \E ps \in 0..CalcPayloadSize, n \in 0..CalcFileSize :
    Start([payload_size |-> ps, max_retries |-> 1,
           buffer_size |-> NoCfg.buffer_size, file |-> File(n)])

NextCalc ==
  \/ ClientConstruct
  \/ SendFileBegin
  \/ SendAttempt

SpecCalc == InitCalc /\ [][NextCalc]_vars

----------------------------------------------------------------------------
(* Properties.                                                             *)

RECURSIVE ConcatChunks(_, _, _)
ConcatChunks(f, from, to) ==
  IF from > to THEN <<>> ELSE f[from] \o ConcatChunks(f, from + 1, to)

\* C1: after METADATA(N), the DATA frames 1..N in any order and FIN, the output
\* file holds the chunk payloads concatenated in increasing sequence order.
C1_PermutationReassembles ==
  plan.phase = "done" =>
    /\ PermName \in DOMAIN disk
    /\ disk[PermName] = ConcatChunks(plan.chunks, 1, plan.N)

\* C1 witness: three chunks delivered in the order 3, 1, 2 and FIN handled.
C1_Witness ==
  /\ plan.phase = "done"
  /\ plan.N = 3
  /\ plan.order = <<3, 1, 2>>
  /\ plan.chunks = <<(<<2, 3>>), <<>>, <<1>>>>
  /\ disk[PermName] = <<2, 3, 1>>

\* The output file of the session the server is in, if it is in one.
InSession == server.filename \in DOMAIN disk

\* C2: within a session write_cursor never decreases, and the output file is
\* the payloads received for sequences 1..write_cursor-1, in that order.
C2_InOrderWrite ==
  /\ [](InSession =>
          /\ \A k \in 1..(server.write_cursor - 1) : k \in DOMAIN accepted
          /\ disk[server.filename] = ConcatChunks(accepted, 1, server.write_cursor - 1))
  /\ [][~(nrecv' # nrecv /\ AcceptedMetadata(last'.pkt))
          => server'.write_cursor >= server.write_cursor]_vars

\* C2 witness: DATA 1 arrived after DATA 2: the cursor went from 1 to 3, nothing
\* is pending and the file holds chunk 1 then chunk 2.
C2_Witness ==
  /\ InSession
  /\ last.pkt = Request(ClientHost, TYPE_DATA, 1, <<1>>)
  /\ server.write_cursor = 3
  /\ DOMAIN server.received_chunks = {}
  /\ disk[server.filename] = <<1, 2, 3>>

\* C3: the pending map holds only sequence numbers >= write_cursor.
C3_PendingNotBelowCursor ==
  \A k \in DOMAIN server.received_chunks : k >= server.write_cursor

----------------------------------------------------------------------------
(* The client: retries, the ACK signal, frame order.                       *)

\* How many of the frames passed to send() are the frame f.
Sends(f) == Cardinality({i \in DOMAIN sent : sent[i] = f})

\* C4: the client never sends a frame more than max_retries times; when the
\* waits for a frame's ACK all time out it has sent that frame exactly
\* max_retries times, the last of its sends, it fails with a TimeoutError that
\* names the frame's sequence number, stops its listener, and sends nothing
\* after the failure.
C4_RetryBound ==
  /\ [](/\ c_pc \in {"attempt", "wait", "failed"} => Sends(loc.frame) <= cfg.max_retries
        /\ c_pc = "failed" =>
             /\ error = [kind |-> "TimeoutError", seq |-> loc.frame.seq]
             /\ Sends(loc.frame) = cfg.max_retries
             /\ \A i \in DOMAIN sent :
                  i > Len(sent) - cfg.max_retries => sent[i] = loc.frame
             /\ \A i \in DOMAIN sent : sent[i].seq <= error.seq
             /\ stop_sniff)
  /\ [][c_pc = "failed" => c_pc' = "failed" /\ sent' = sent /\ toServer' \subseteq toServer]_vars

\* C4 witness: with max_retries = 2, METADATA was acknowledged and DATA 1 was
\* sent twice without an ACK for it: the transfer failed naming sequence 1.
C4_Witness ==
  /\ c_pc = "failed"
  /\ cfg.max_retries = 2
  /\ error = [kind |-> "TimeoutError", seq |-> 1]
  /\ Len(sent) = 3
  /\ sent[2] = sent[3]
  /\ sent[3].type = TYPE_DATA
  /\ faults.timeouts = 2
  /\ 1 \notin acks.ackRecv

\* The sequence numbers the client has sent a frame for.
SentSeqs == {sent[i].seq : i \in DOMAIN sent}

\* C5: a frame with sequence s+1 is sent only after an ACK with sequence s was
\* received, and at most one sequence number has been sent and not yet been
\* acknowledged by an ACK of that sequence number.
C5_OneInFlight ==
  /\ \A s \in SentSeqs : s > 0 => (s - 1) \in acks.ackRecv
  /\ Cardinality(SentSeqs \ acks.ackRecv) <= 1

\* C6: whenever the ACK signal is set, it was set by an ACK whose sequence
\* number is the one of the frame outstanding.
C6_SignalOnlyByMatchingAck ==
  ack_event => acks.setBy = expected_ack_seq

\* C7: the frames are METADATA with sequence 0 first, DATA with sequences
\* 1..N in increasing order (retransmissions aside), FIN with sequence N+1
\* last; DATA is sent only after ACK 0 was received and FIN only after ACK N.
C7_FrameOrder ==
  LET N == loc.total_chunks
  IN  /\ \A i \in DOMAIN sent :
           /\ sent[i].seq = 0 <=> sent[i].type = TYPE_METADATA
           /\ sent[i].seq \in 1..N <=> sent[i].type = TYPE_DATA
           /\ sent[i].seq = N + 1 <=> sent[i].type = TYPE_FIN
           /\ i = 1 => sent[i].seq = 0
           /\ i > 1 => sent[i].seq \in {sent[i - 1].seq, sent[i - 1].seq + 1}
      /\ \A i \in DOMAIN sent :
           /\ sent[i].type = TYPE_DATA => 0 \in acks.ackRecv
           /\ sent[i].type = TYPE_FIN => N \in acks.ackRecv

\* ceil(a / b), from its definition: the least q with q * b >= a.
CeilDiv(a, b) == CHOOSE q \in 0..a : q * b >= a /\ \A r \in 0..(q - 1) : r * b < a

\* C8: on a network without loss, reordering or timeouts, a transfer that
\* ends has made exactly N+2 sends (one METADATA, N DATA in order, one FIN),
\* the server's output file is the source file, and the server's stop flag is
\* set.
C8_CleanTransfer ==
  c_pc = "done" =>
    LET N == CeilDiv(Len(cfg.file), cfg.payload_size - HEADER_SIZE)
    IN  /\ Len(sent) = N + 2
        /\ sent[1].type = TYPE_METADATA
        /\ \A i \in 1..N : sent[i + 1].type = TYPE_DATA /\ sent[i + 1].seq = i
        /\ sent[N + 2].type = TYPE_FIN
        /\ ClientFileName \in DOMAIN disk
        /\ disk[ClientFileName] = cfg.file
        /\ server.stop_event

\* C8 witness: the 13-byte file with payload_size 512 was transferred with
\* 3 sends.
C8_Witness ==
  /\ c_pc = "done"
  /\ cfg.payload_size = 512
  /\ Len(cfg.file) = 13
  /\ Len(sent) = 3
  /\ disk[ClientFileName] = File(13)
  /\ server.stop_event

\* C9: the total_chunks in a METADATA frame the client sends is
\* ceil(file_size / (payload_size - HEADER_SIZE)), which is 0 for an empty file.
C9_TotalChunksIsCeiling ==
  \A i \in DOMAIN sent :
    sent[i].type = TYPE_METADATA =>
      /\ decode_metadata(sent[i].data).total =
           CeilDiv(Len(cfg.file), cfg.payload_size - HEADER_SIZE)
      /\ Len(cfg.file) = 0 => decode_metadata(sent[i].data).total = 0

\* C9 witness: a file of 100 bytes with payload_size 20 is announced as 10
\* chunks.
C9_Witness ==
  /\ Len(cfg.file) = 100
  /\ cfg.payload_size = 20
  /\ Len(sent) = 1
  /\ decode_metadata(sent[1].data).total = 10

\* C10: the constructor fails with a ValueError exactly when payload_size is
\* at most HEADER_SIZE (9), and then nothing has been or is sent.
C10_PayloadSizeChecked ==
  /\ c_pc # "new" => (c_pc = "config_error" <=> cfg.payload_size <= 9)
  /\ c_pc = "config_error" =>
       /\ error.kind = "ValueError"
       /\ sent = <<>>
       /\ toServer = {}
       /\ l_pc = "off"

\* C10 witness: payload_size 9 was rejected.
C10_Witness ==
  /\ c_pc = "config_error"
  /\ cfg.payload_size = 9
  /\ error.kind = "ValueError"

----------------------------------------------------------------------------
(* The server's handlers, frame by frame.  A step that changes nrecv is    *)
(* one call of _handle_packet: its packet is last'.pkt, what it sent is    *)
(* last'.out, and the state before and after are the unprimed and primed   *)
(* variables.  When the stop flag was set before the call, or the handler  *)
(* set it or raised, the receive loop ends after the call and start()'s    *)
(* finally clause has closed the output file in the state after.           *)

\* The frame that _handle_packet dispatches for pkt, if it dispatches one.
Dispatched(pkt) == is_valid_packet(pkt) /\ parse_payload(pkt.load) # NoneFrame

FrameOf(pkt) == parse_payload(pkt.load)

\* The server state after a call that left the object as it was.
Untouched(s) == IF s.stop_event THEN start_finally(s) ELSE s

\* A METADATA frame whose payload has fewer than 4 bytes or whose filename
\* bytes are not UTF-8.
UndecodableMetadata(pkt) ==
  /\ Dispatched(pkt)
  /\ FrameOf(pkt).type = TYPE_METADATA
  /\ \/ Len(FrameOf(pkt).data) < 4
     \/ utf8_decode(SliceFrom(FrameOf(pkt).data, 4)) = NoneText

\* C11: a METADATA frame that fails decoding gets no ACK and changes nothing:
\* filename, total_chunks, write_cursor, pending and the output files are as
\* before.
C11_InvalidMetadataNoAck ==
  [][nrecv' # nrecv /\ UndecodableMetadata(last'.pkt) =>
       /\ last'.out = <<>>
       /\ last'.raised = "none"
       /\ server' = Untouched(server)
       /\ disk' = disk]_vars

\* C11 witness: in a session with chunk 2 pending, a METADATA frame with
\* filename bytes FF FE was handled: no ACK, the session as it was.
C11_Witness ==
  /\ last.pkt = Request(ClientHost, TYPE_METADATA, 0, pack_I(1) \o <<255, 254>>)
  /\ last.out = <<>>
  /\ last.log = "invalid_metadata"
  /\ server.output_file = FileObj(<<97>>, FALSE)
  /\ server.write_cursor = 1
  /\ DOMAIN server.received_chunks = {2}

\* A METADATA frame that decodes to a filename that is empty or contains
\* '/', '\' or '..'.
UnsafeMetadata(pkt) ==
  /\ Dispatched(pkt)
  /\ FrameOf(pkt).type = TYPE_METADATA
  /\ ~UndecodableMetadata(pkt)
  /\ LET name == utf8_decode(SliceFrom(FrameOf(pkt).data, 4))
     IN  \/ name = <<>>
         \/ Contains(name, <<47>>)
         \/ Contains(name, <<92>>)
         \/ Contains(name, <<46, 46>>)

\* C12: a METADATA frame whose filename fails sanitization gets no ACK,
\* creates no file and changes no state of the server.
C12_UnsafeFilenameRejected ==
  [][nrecv' # nrecv /\ UnsafeMetadata(last'.pkt) =>
       /\ last'.out = <<>>
       /\ last'.raised = "none"
       /\ server' = Untouched(server)
       /\ disk' = disk]_vars

\* C12 witness: METADATA naming "../e" was the first frame handled: no ACK, no
\* file, no session.
C12_Witness ==
  /\ last.pkt = Request(ClientHost, TYPE_METADATA, 0, encode_metadata(1, <<46, 46, 47, 101>>))
  /\ last.out = <<>>
  /\ last.log = "unsafe_filename"
  /\ disk = EmptyDisk
  /\ server = ServerInit

\* What decode_metadata and sanitize_filename make of an accepted METADATA.
Announced(pkt) ==
  [total |-> decode_metadata(FrameOf(pkt).data).total,
   name  |-> sanitize_filename(decode_metadata(FrameOf(pkt).data).name)]

\* The ACK on the wire that answers pkt.
AckFor(pkt) == Transmit(ServerHost, send_ack(pkt.src, FrameOf(pkt).seq))

\* C13: after the server handled a METADATA frame that passes decoding and
\* sanitization, from any state, write_cursor is 1, pending is empty, a fresh
\* empty output file is open at the sanitized name, total_chunks is the
\* announced value, and exactly one ACK, with the frame's sequence 0, was sent.
C13_MetadataOpensSession ==
  [][nrecv' # nrecv /\ AcceptedMetadata(last'.pkt) /\ ~server.stop_event =>
       /\ server'.write_cursor = 1
       /\ server'.received_chunks = EmptyChunks
       /\ server'.total_chunks = Announced(last'.pkt).total
       /\ server'.filename = Announced(last'.pkt).name
       /\ server'.output_file = FileObj(Announced(last'.pkt).name, FALSE)
       /\ Announced(last'.pkt).name \in DOMAIN disk'
       /\ disk'[Announced(last'.pkt).name] = <<>>
       /\ last'.raised = "none"
       /\ last'.out = <<AckFor(last'.pkt)>>]_vars

\* C14: whatever a call of _handle_packet sent is at most one packet, an echo
\* reply carrying an ACK frame with empty payload and the sequence of the frame
\* handled, addressed to that frame's source; and the frame handled was a
\* METADATA, DATA or FIN frame.
C14_AckShape ==
  /\ Len(last.out) <= 1
  /\ \A i \in DOMAIN last.out :
       /\ Dispatched(last.pkt)
       /\ FrameOf(last.pkt).type \in {TYPE_METADATA, TYPE_DATA, TYPE_FIN}
       /\ last.out[i].has_icmp /\ last.out[i].has_raw
       /\ last.out[i].icmp_type = ICMP_ECHO_REPLY
       /\ last.out[i].id = ICMP_IDENT
       /\ last.out[i].src = ServerHost
       /\ last.out[i].dst = last.pkt.src
       /\ parse_payload(last.out[i].load) =
            [type |-> TYPE_ACK, seq |-> FrameOf(last.pkt).seq, data |-> <<>>]

\* C14 witness: in an open session a FIN with sequence 1 from the second
\* sender was answered with one ACK 1 to that sender.
C14_Witness ==
  /\ last.pkt = Request(Sender2, TYPE_FIN, 1, <<>>)
  /\ server.filename = <<97>>
  /\ Len(last.out) = 1
  /\ last.out[1].dst = Sender2
  /\ last.out[1].icmp_type = ICMP_ECHO_REPLY
  /\ parse_payload(last.out[1].load).seq = 1

\* The server has an output file open.
SessionOpen(s) == s.output_file # NoFile /\ ~s.output_file.closed

C16_DataWithoutSessionIgnored ==
  [][/\ nrecv' # nrecv
     /\ Dispatched(last'.pkt)
     /\ FrameOf(last'.pkt).type = TYPE_DATA
     /\ server.output_file = NoFile
     => /\ last'.out = <<>>
        /\ server'.received_chunks = server.received_chunks
        /\ server' = Untouched(server)
        /\ disk' = disk]_vars

\* C17: a FIN frame handled by a server that never accepted a METADATA frame
\* gets no ACK, does not set the stop flag, changes no state and raises no
\* error.
C17_FinWithoutSessionIgnored ==
  [][/\ nrecv' # nrecv
     /\ Dispatched(last'.pkt)
     /\ FrameOf(last'.pkt).type = TYPE_FIN
     /\ server.filename = NoneText
     /\ server.output_file = NoFile
     /\ ~server.stop_event
     => /\ last'.out = <<>>
        /\ last'.raised = "none"
        /\ ~server'.stop_event
        /\ server' = server
        /\ disk' = disk]_vars

\* C18: FIN handled in an open session is answered with an ACK of its
\* sequence; every pending chunk contiguous with write_cursor has been written
\* behind what the file held; no output file is open afterwards; the stop flag
\* is set and the receive loop has ended.
C18_FinClosesSession ==
  [][/\ nrecv' # nrecv
     /\ Dispatched(last'.pkt)
     /\ FrameOf(last'.pkt).type = TYPE_FIN
     /\ SessionOpen(server)
     => /\ last'.out = <<AckFor(last'.pkt)>>
        /\ last'.raised = "none"
        /\ server'.write_cursor >= server.write_cursor
        /\ server'.write_cursor \notin DOMAIN server.received_chunks
        /\ \A k \in server.write_cursor..(server'.write_cursor - 1) :
             k \in DOMAIN server.received_chunks
        /\ disk' = [disk EXCEPT ![server.filename] =
                      @ \o ConcatChunks(server.received_chunks, server.write_cursor,
                                        server'.write_cursor - 1)]
        /\ server'.output_file = NoFile
        /\ server'.stop_event
        /\ srv_pc' = "stopped"]_vars

\* C18 witness: after METADATA for 2 chunks, DATA 1 and DATA 2, FIN was
\* handled: ACK sent, file complete and closed, stop flag set, loop ended.
C18_Witness ==
  /\ last.pkt = Request(ClientHost, TYPE_FIN, MaxChunks + 1, <<>>)
  /\ last.out = <<AckFor(last.pkt)>>
  /\ last.log = "saved"
  /\ server.total_chunks = 2
  /\ server.write_cursor = 3
  /\ disk[server.filename] = <<1, 2, 3>>
  /\ server.output_file = NoFile
  /\ server.stop_event
  /\ srv_pc = "stopped"

\* C19: FIN handled in an open session raises no error and sets the stop
\* flag whether chunks are missing or not; the transfer is judged complete
\* exactly when write_cursor > total_chunks; the file is kept and holds exactly
\* the chunks 1..write_cursor-1, and the chunks pending beyond the first gap
\* stay pending, unwritten.  The file changes only in a session or when a
\* METADATA frame opens one.
C19_IncompleteKeepsPrefix ==
  /\ [][/\ nrecv' # nrecv
        /\ Dispatched(last'.pkt)
        /\ FrameOf(last'.pkt).type = TYPE_FIN
        /\ SessionOpen(server)
        => /\ last'.raised = "none"
           /\ server'.stop_event
           /\ last'.log = IF server'.write_cursor > server'.total_chunks
                          THEN "saved" ELSE "incomplete"
           /\ server.filename \in DOMAIN disk'
           /\ disk'[server.filename] = ConcatChunks(accepted, 1, server'.write_cursor - 1)
           /\ \A k \in DOMAIN server.received_chunks :
                k >= server'.write_cursor => k \in DOMAIN server'.received_chunks]_vars
  /\ [][disk' # disk => nrecv' # nrecv /\ (SessionOpen(server) \/ AcceptedMetadata(last'.pkt))]_vars

\* C19 witness: 2 chunks announced, DATA 1 and DATA 3 received, then FIN:
\* judged incomplete, no error, stop flag set, the file holds chunk 1 only
\* and chunk 3 was not written.
C19_Witness ==
  /\ last.pkt = Request(ClientHost, TYPE_FIN, MaxChunks + 1, <<>>)
  /\ last.log = "incomplete"
  /\ last.raised = "none"
  /\ server.stop_event
  /\ server.total_chunks = 2
  /\ server.write_cursor = 2
  /\ DOMAIN server.received_chunks = {3}
  /\ disk[server.filename] = <<1>>

\* A packet without ICMP layer or payload, with another identifier than the
\* tool's, with a payload of fewer than 9 bytes, or with other magic bytes.
Malformed(pkt) ==
  \/ ~pkt.has_icmp
  \/ ~pkt.has_raw
  \/ pkt.id # 20289
  \/ Len(pkt.load) < 9
  \/ SubSeq(pkt.load, 1, 4) # <<79, 65, 83, 73>>

\* C20: a malformed packet is not dispatched: the server sends nothing, logs
\* nothing about a frame, raises nothing and its state and files are as before.
C20_MalformedDiscarded ==
  [][nrecv' # nrecv /\ Malformed(last'.pkt) =>
       /\ last'.out = <<>>
       /\ last'.raised = "none"
       /\ last'.log = "none"
       /\ server' = Untouched(server)
       /\ disk' = disk]_vars

\* C20 witness: in a session with chunk 2 pending, a packet with the tool's
\* identifier and magic but a payload of 8 bytes was handled: nothing sent,
\* the session as it was.
C20_Witness ==
  /\ last.pkt = Packet(ClientHost, ServerHost, TRUE, ICMP_ECHO_REQUEST, ICMP_IDENT, TRUE,
                       MAGIC \o <<2, 0, 0, 0>>)
  /\ Malformed(last.pkt)
  /\ last.out = <<>>
  /\ SessionOpen(server)
  /\ server.write_cursor = 1
  /\ DOMAIN server.received_chunks = {2}

----------------------------------------------------------------------------
(* The client's look-ahead buffer.                                         *)

\* The s-th chunk of file in chunks of n bytes, s = 1, 2, ...
FileChunk(file, s, n) == SubSeq(file, (s - 1) * n + 1, Min(s * n, Len(file)))

\* C21: the look-ahead buffer never holds more chunks than buffer_size.
C21_BufferWithinCapacity ==
  Cardinality(DOMAIN loc.chunk_buffer) <= cfg.buffer_size

\* C21 witness: buffer_size 2 and a file of 4 chunks; chunk 2 is about to be
\* sent and the buffer is full with chunks 2 and 3.
C21_Witness ==
  /\ cfg.buffer_size = 2
  /\ loc.total_chunks = 4
  /\ c_pc = "wait"
  /\ loc.frame.type = TYPE_DATA
  /\ loc.frame.seq = 2
  /\ DOMAIN loc.chunk_buffer = {1, 2}

\* The payload of the DATA frame the client sent with sequence s.
SentData(s) == sent[CHOOSE i \in DOMAIN sent : sent[i].seq = s].data

\* C22: when DATA s is to be sent the buffer holds the s-th chunk of the
\* file; a chunk has left the buffer only after an ACK with its sequence was
\* received; the payloads of DATA 1..N of a finished transfer, in sequence
\* order, are the file.
C22_BufferFeedsData ==
  /\ (c_pc \in {"attempt", "wait"} /\ loc.frame.type = TYPE_DATA) =>
       /\ (loc.frame.seq - 1) \in DOMAIN loc.chunk_buffer
       /\ loc.chunk_buffer[loc.frame.seq - 1] =
            FileChunk(cfg.file, loc.frame.seq, loc.data_per_chunk)
       /\ loc.frame.data = loc.chunk_buffer[loc.frame.seq - 1]
  /\ \A k \in 0..(loc.next_load - 1) :
       k \notin DOMAIN loc.chunk_buffer => (k + 1) \in acks.ackRecv
  /\ c_pc = "done" =>
       ConcatChunks([k \in 1..loc.total_chunks |-> SentData(k)], 1, loc.total_chunks)
         = cfg.file

\* C23: send_file ends in an error only by retry exhaustion: the only
\* exception it raises is the TimeoutError of _send_with_retry.
C23_OnlyRetryExhaustionFails ==
  /\ c_pc # "crashed"
  /\ (c_pc # "config_error" /\ error # NoError) => error.kind = "TimeoutError"

----------------------------------------------------------------------------
(* The kernel's echo replies on the server host.                           *)

\* C24: while start() is listening the host's kernel echo auto-reply is
\* suppressed (icmp_echo_ignore_all forced to 1), and once start() has left,
\* by return or by exception, the setting is back at the value start() found
\* (0, the kernel's default, in every initial state).
C24_EchoSuppressedWhileListening ==
  /\ srv_pc = "listening" => echo_ignore_all = 1
  /\ srv_pc \in {"stopped", "crashed"} => echo_ignore_all = 0

----------------------------------------------------------------------------
(* SpecCodec: the pure functions of lines 41-92, each applied to inputs    *)
(* drawn in the initial state.  A frame job encodes (type, seq, data) with *)
(* build_payload, may cut the bytes short or overwrite one magic byte, and *)
(* decodes with parse_payload.  A name job passes a file name through      *)
(* sanitize_filename and then announces it to a listening server in a      *)
(* METADATA frame.                                                         *)

CodecMaxLen == 2
NameMaxLen == 3

\* Sequence numbers at the byte boundaries of the 32-bit field, up to 2^31 - 1.
CodecSeqs == {0, 1, 255, 256, 65535, 65536, 16777216, 2147483647}
CodecBytes == {0, 79, 255}
\* '/', '\', '.', 'a'
NameChars == {47, 92, 46, 97}
FrameTypes == {TYPE_METADATA, TYPE_DATA, TYPE_ACK, TYPE_FIN}

SeqsUpTo(S, n) == UNION {[1..k -> S] : k \in 0..n}

FrameJob(t, q, d) ==
  [kind |-> "frame", phase |-> "input", type |-> t, seq |-> q, data |-> d,
   raw |-> <<>>, altered |-> "none", parsed |-> NoneFrame,
   name |-> <<>>, clean |-> NoneText]

NameJob(name) ==
  [kind |-> "name", phase |-> "input", type |-> 0, seq |-> 0, data |-> <<>>,
   raw |-> <<>>, altered |-> "none", parsed |-> NoneFrame,
   name |-> name, clean |-> NoneText]

InitCodec ==
  /\ server = ServerInit
  /\ disk = EmptyDisk
  /\ srv_pc = "listening"
  /\ echo_ignore_all = 0
  /\ last = NoLast
  /\ accepted = EmptyChunks
  /\ nrecv = 0
  /\ ClientOff
  /\ \/ \E t \in FrameTypes, q \in CodecSeqs, d \in SeqsUpTo(CodecBytes, CodecMaxLen) :
          plan = FrameJob(t, q, d)
     \/ \E name \in SeqsUpTo(NameChars, NameMaxLen) : plan = NameJob(name)

BuildPayload ==
  /\ plan.kind = "frame" /\ plan.phase = "input"
  /\ plan' = [plan EXCEPT !.raw = build_payload(plan.type, plan.seq, plan.data),
                          !.phase = "encoded"]
  /\ UNCHANGED <<svars, hvars, cvars, nvars>>

\* The bytes arrive cut short.
Truncate ==
  /\ plan.phase = "encoded" /\ plan.altered = "none"
  /\ \E n \in 0..(Len(plan.raw) - 1) :
       plan' = [plan EXCEPT !.raw = SliceTo(plan.raw, n), !.altered = "truncated"]
  /\ UNCHANGED <<svars, hvars, cvars, nvars>>

\* One of the four magic bytes arrives as another byte.
AlterMagic ==
  /\ plan.phase = "encoded" /\ plan.altered = "none"
  /\ \E i \in 1..4, b \in CodecBytes :
       /\ b # plan.raw[i]
       /\ plan' = [plan EXCEPT !.raw = [plan.raw EXCEPT ![i] = b], !.altered = "magic"]
  /\ UNCHANGED <<svars, hvars, cvars, nvars>>

ParsePayload ==
  /\ plan.phase = "encoded"
  /\ plan' = [plan EXCEPT !.parsed = parse_payload(plan.raw), !.phase = "decoded"]
  /\ UNCHANGED <<svars, hvars, cvars, nvars>>

SanitizeFilename ==
  /\ plan.kind = "name" /\ plan.phase = "input"
  /\ plan' = [plan EXCEPT !.clean = sanitize_filename(plan.name), !.phase = "sanitized"]
  /\ UNCHANGED <<svars, hvars, cvars, nvars>>

\* The server is handed METADATA announcing one chunk of a file called plan.name.
MetadataArrives ==
  /\ plan.kind = "name" /\ plan.phase = "sanitized"
  /\ srv_pc = "listening"
  /\ LET pkt == Request(ClientHost, TYPE_METADATA, 0, encode_metadata(1, plan.name))
         r == handle_packet(server, disk, pkt)
     IN  /\ SrvAfter(r)
         /\ disk' = r.disk
         /\ Track(pkt, r)
  /\ plan' = [plan EXCEPT !.phase = "announced"]
  /\ UNCHANGED <<cvars, nvars>>

NextCodec ==
  \/ BuildPayload
  \/ Truncate
  \/ AlterMagic
  \/ ParsePayload
  \/ SanitizeFilename
  \/ MetadataArrives

SpecCodec == InitCodec /\ [][NextCodec]_vars

----------------------------------------------------------------------------
(* The codec and the file-name filter.                                     *)

\* C25: decoding the encoded frame gives back exactly the type, the sequence
\* and the payload that were encoded, for each of the four types, sequences
\* across the 32-bit field and payloads from empty up, and the encoded frame
\* is 9 bytes longer than the payload.
C25_CodecRoundTrip ==
  /\ (plan.kind = "frame" /\ plan.phase # "input" /\ plan.altered = "none")
       => Len(plan.raw) = 9 + Len(plan.data)
  /\ (plan.kind = "frame" /\ plan.phase = "decoded" /\ plan.altered = "none")
       => plan.parsed = [type |-> plan.type, seq |-> plan.seq, data |-> plan.data]

\* C25 witness: a FIN frame with the largest sequence of the inputs and a
\* payload of two bytes has been encoded and decoded.
C25_Witness ==
  /\ plan.kind = "frame" /\ plan.phase = "decoded" /\ plan.altered = "none"
  /\ plan.type = TYPE_FIN /\ plan.seq = 2147483647 /\ plan.data = <<255, 0>>
  /\ plan.raw = <<79, 65, 83, 73, 4, 127, 255, 255, 255, 255, 0>>

\* C26: parse_payload answers invalid exactly for the inputs shorter than 9
\* bytes and the inputs whose first four bytes are not 'OASI'; every other
\* input gives a frame.
C26_InvalidExactlyShortOrWrongMagic ==
  (plan.kind = "frame" /\ plan.phase = "decoded")
    => (plan.parsed = NoneFrame
          <=> (\/ Len(plan.raw) < 9
               \/ \E i \in 1..4 : plan.raw[i] # <<79, 65, 83, 73>>[i]))

\* C26 witness: an input of at least 9 bytes with an altered magic byte was
\* turned away, as was an input of 8 bytes with the magic intact.
C26_Witness ==
  /\ plan.kind = "frame" /\ plan.phase = "decoded"
  /\ plan.altered = "magic" /\ Len(plan.raw) = 10 /\ plan.raw[4] = 79
  /\ plan.parsed = NoneFrame

\* The name has a '/' or a '\' in it.
HasSeparator(name) == \E i \in 1..Len(name) : name[i] = 47 \/ name[i] = 92

\* The name has two dots in a row in it.
HasDotDot(name) == \E i \in 1..(Len(name) - 1) : name[i] = 46 /\ name[i + 1] = 46

\* C27: sanitize_filename rejects exactly the names that are empty or contain
\* '/', '\' or '..' and returns every other name as it is; and every file the
\* server has opened or created has a name without separator and without '..'.
C27_SanitizeFilename ==
  /\ (plan.kind = "name" /\ plan.phase # "input")
       => /\ plan.clean = NoneText
               <=> (plan.name = <<>> \/ HasSeparator(plan.name) \/ HasDotDot(plan.name))
          /\ plan.clean # NoneText => plan.clean = plan.name
  /\ \A f \in DOMAIN disk : ~HasSeparator(f) /\ ~HasDotDot(f)
  /\ server.output_file # NoFile
       => ~HasSeparator(server.output_file.name) /\ ~HasDotDot(server.output_file.name)

\* C27 witness: the name ".a." went through unchanged and the server opened
\* a file of that name.
C27_Witness ==
  /\ plan.kind = "name" /\ plan.phase = "announced"
  /\ plan.name = <<46, 97, 46>> /\ plan.clean = <<46, 97, 46>>
  /\ server.output_file = FileObj(<<46, 97, 46>>, FALSE)
  /\ <<46, 97, 46>> \in DOMAIN disk

----------------------------------------------------------------------------
(* Retransmission, termination and the stop flags.                         *)

\* The sends that carried sequence number q.
SendsOfSeq(q) == {i \in DOMAIN sent : sent[i].seq = q}

\* C28: all sends of one sequence number carry the same type and the same
\* payload bytes, on the wire as well, a DATA frame carries the chunk of the
\* file its sequence number stands for, and no sequence number is sent more
\* than max_retries times.
C28_RetransmissionVerbatim ==
  /\ \A i, j \in DOMAIN sent : sent[i].seq = sent[j].seq => sent[i] = sent[j]
  /\ \A p \in toServer : \E i \in DOMAIN sent :
       p.load = build_payload(sent[i].type, sent[i].seq, sent[i].data)
  /\ \A i \in DOMAIN sent :
       sent[i].type = TYPE_DATA
         => sent[i].data = FileChunk(cfg.file, sent[i].seq, loc.data_per_chunk)
  /\ \A q \in SentSeqs : Cardinality(SendsOfSeq(q)) <= cfg.max_retries

\* C28 witness: DATA 1 timed out once and was sent again, and the transfer
\* then went through.
C28_Witness ==
  /\ c_pc = "done"
  /\ faults.timeouts >= 1
  /\ Len(sent) = 4
  /\ sent[2] = sent[3]
  /\ sent[2].type = TYPE_DATA /\ sent[2].seq = 1 /\ sent[2].data # <<>>

C30_StopFlagOnlySet == [][server.stop_event => server'.stop_event]_vars

\* C30 witness: the server, its stop flag already set, was handed a METADATA
\* frame, opened the new session and acknowledged it, and the flag is still
\* set.
C30_Witness ==
  /\ server.stop_event
  /\ last.log = "receiving"
  /\ AcceptedMetadata(last.pkt)
  /\ nrecv >= 3
  /\ server.total_chunks = Announced(last.pkt).total

----------------------------------------------------------------------------
(* The dispatcher, the end of the receive loop and the whole transfer.     *)

\* A frame the codec parses whose type is none of METADATA, DATA and FIN.
OtherType(pkt) ==
  /\ Dispatched(pkt)
  /\ FrameOf(pkt).type # 1 /\ FrameOf(pkt).type # 2 /\ FrameOf(pkt).type # 4

\* C31: a parsed frame of another type than METADATA, DATA and FIN (an ACK,
\* or a type value the protocol does not have) gets no ACK, raises nothing and
\* leaves the server's state and files as they were.
C31_OtherTypeRejected ==
  [][nrecv' # nrecv /\ OtherType(last'.pkt) =>
       /\ last'.out = <<>>
       /\ last'.raised = "none"
       /\ last'.log = "none"
       /\ server' = Untouched(server)
       /\ disk' = disk]_vars

\* C31 witness: in a session with chunk 2 pending a frame of type 9 was
\* handled: nothing sent, the session as it was.
C31_Witness ==
  /\ last.pkt = Request(ClientHost, 9, 1, <<1>>)
  /\ OtherType(last.pkt)
  /\ last.out = <<>>
  /\ SessionOpen(server)
  /\ server.write_cursor = 1
  /\ DOMAIN server.received_chunks = {2}

\* C32: once start() has returned or raised, whatever ended the receive loop
\* (a FIN, sniff's timeout, stop(), an exception of a handler), the server
\* holds no output file.
C32_SinkClosedAfterLoop ==
  srv_pc \in {"stopped", "crashed"} => server.output_file = NoFile

\* C32 witness: METADATA and DATA 1 of a two-chunk transfer were handled and
\* written, then sniff's timeout ended the loop with the session still open
\* (no FIN, no stop()); the file is closed.
C32_Witness ==
  /\ srv_pc = "stopped"
  /\ ~server.stop_event
  /\ nrecv = 2
  /\ server.total_chunks = 2
  /\ server.write_cursor = 2
  /\ server.filename \in DOMAIN disk
  /\ disk[server.filename] = <<1>>
  /\ server.output_file = NoFile

\* C33: whenever send_file has completed successfully, the server has
\* handled FIN, has written all N chunks and its output file is the source
\* file.  Success is taken here in the narrow sense, the ACK of every frame
\* 0..N+1 having reached the client, so that a wait ended by a stale ACK
\* plays no part.
C33_EndToEndAgreement ==
  (c_pc = "done" /\ \A k \in 0..(loc.total_chunks + 1) : k \in acks.ackRecv)
    => /\ server.stop_event
       /\ server.write_cursor = loc.total_chunks + 1
       /\ ClientFileName \in DOMAIN disk
       /\ disk[ClientFileName] = cfg.file

\* C34: in every state of the server the write cursor is at most N + 1, N the
\* total_chunks of the session: no DATA payload of a sequence greater than N
\* has been written to the file.
C34_CursorWithinTotal == server.write_cursor <= server.total_chunks + 1

----------------------------------------------------------------------------
(* SpecReject: the transfer of SpecPerm (METADATA, the DATA frames once     *)
(* each in any order, FIN), with METADATA frames the server rejects         *)
(* arriving between the accepted METADATA and FIN.                         *)

\* rejected METADATA frames that arrive during one transfer
MaxRejects == 1

\* METADATA of 1 byte, with filename bytes that are not UTF-8, and naming
\* "../e", "a\b" and "".
RejectedMetadata ==
  {Request(ClientHost, TYPE_METADATA, 0, <<0>>),
   Request(ClientHost, TYPE_METADATA, 0, pack_I(1) \o <<255, 254>>),
   Request(ClientHost, TYPE_METADATA, 0, encode_metadata(1, <<46, 46, 47, 101>>)),
   Request(ClientHost, TYPE_METADATA, 0, encode_metadata(1, <<97, 92, 98>>)),
   Request(ClientHost, TYPE_METADATA, 0, encode_metadata(1, <<>>))}

InitReject ==
  /\ server = ServerInit
  /\ disk = EmptyDisk
  /\ srv_pc = "listening"
  /\ echo_ignore_all = 0
  /\ last = NoLast
  /\ accepted = EmptyChunks
  /\ nrecv = 0
  /\ ClientOff
  /\ \E n \in 0..MaxChunks : \E c \in [1..n -> ChunkPayloads] :
       plan = [N |-> n, chunks |-> c, order |-> <<>>, phase |-> "meta", rejected |-> 0]

PermReject ==
  /\ plan.phase \in {"data", "fin"}
  /\ plan.rejected < MaxRejects
  /\ \E pkt \in RejectedMetadata : PermDeliver(pkt)
  /\ plan' = [plan EXCEPT !.rejected = @ + 1]

NextReject == PermMeta \/ PermData \/ PermFin \/ PermReject

SpecReject == InitReject /\ [][NextReject]_vars

\* A METADATA frame the server rejects.
RejectedMeta(pkt) == UndecodableMetadata(pkt) \/ UnsafeMetadata(pkt)

\* C35: a rejected METADATA frame handled while a session is open sends
\* nothing, raises nothing and leaves the server object (filename,
\* total_chunks, write_cursor, pending chunks, the open file) and the bytes
\* written as they were; and the transfer it interrupted still ends with
\* the whole file written and logged as saved.
C35_RejectedMetadataKeepsSession ==
  /\ [][nrecv' # nrecv /\ SessionOpen(server) /\ RejectedMeta(last'.pkt) =>
          /\ last'.out = <<>>
          /\ last'.raised = "none"
          /\ server' = server
          /\ SessionOpen(server')
          /\ disk' = disk]_vars
  /\ [](plan.phase = "done" =>
          /\ last.log = "saved"
          /\ disk[PermName] = ConcatChunks(plan.chunks, 1, plan.N))

\* C35 witness: a transfer of two chunks, delivered in the order 2, 1, that a
\* rejected METADATA interrupted, has ended with the whole file written.
C35_Witness ==
  /\ plan.phase = "done"
  /\ plan.rejected = 1
  /\ plan.N = 2
  /\ plan.order = <<2, 1>>
  /\ nrecv = 5
  /\ disk[PermName] = plan.chunks[1] \o plan.chunks[2]
  /\ server.write_cursor = 3

============================================================================
